---- MODULE Spec2Model ----
(***************************************************************************)
(* FinPer chatbot: the command parser (app.py), the ledger and budget      *)
(* stores and the accounting engine (data_handler.py) and the webhook      *)
(* payload extraction (whatsapp.py).                                       *)
(*                                                                         *)
(* A str is a sequence of characters, so that lower(), upper(), split(),    *)
(* strip(), int() and the "," number format are computed the way Python    *)
(* computes them.  A printable Latin-1 character is written as itself, any *)
(* other character by its code point ("U+0663"); Alphabet lists the        *)
(* characters the texts are written in.  A reply is a sequence of strings: *)
(* the literal chunks of the f-strings of app.py, each one element,        *)
(* interleaved with the characters of the formatted values.                *)
(*                                                                         *)
(* The server keeps no lock on its two files and serves each request on a  *)
(* thread of its own, so a request is a sequence of steps, one per file    *)
(* operation, clock reading and network call, and the steps of two         *)
(* requests interleave.                                                    *)
(*                                                                         *)
(* Outside the model: characters openpyxl refuses to write (the C0         *)
(* controls that are not whitespace), cell texts pandas would read back as *)
(* numbers or booleans, and integers beyond 31 bits.                       *)
(***************************************************************************)
EXTENDS Integers, Sequences, FiniteSets, TLC

\* ------------------------------------------------------------------ bounds
\* The clock advances at most MaxTick ticks.
MaxTick == 1
\* get_monthly_expenses_cop alone is run on ledgers of at most MaxRows rows.
MaxRows == 3
\* The parser, the webhook and the accounting engine serve at most MaxCalls
\* requests.
MaxCalls == 2
\* The stores under overlapping requests serve at most MaxConcCalls.
MaxConcCalls == 3

\* ------------------------------------------------------- program constants
DEFAULT_TIPO_CAMBIO == 3900

\* Python's None in a column that is never set (Notas, Productos, Ubicacion).
None == "None"

\* Python's empty dict.
EmptyDict == [k \in {} |-> 0]

\* An optional value: Python's None, or a value v.
NoneVal == [isNone |-> TRUE, v |-> 0]

Some(x) == [isNone |-> FALSE, v |-> x]

\* An optional str: None (NaN in a DataFrame, an empty cell in the file).
NoneStr == [isNone |-> TRUE, v |-> <<>>]

\* ------------------------------------------------------------ str methods
\* The characters of the texts, in the order of their code points.
Alphabet ==
  <<"\t", "\n", "U+000B", "\f", "\r", "U+001C", "U+001D", "U+001E", "U+001F", " ", "!", "\"",
    "#", "$", "%", "&", "'", "(", ")", "*", "+", ",", "-", ".",
    "/", "0", "1", "2", "3", "4", "5", "6", "7", "8", "9", ":",
    ";", "<", "=", ">", "?", "@", "A", "B", "C", "D", "E", "F",
    "G", "H", "I", "J", "K", "L", "M", "N", "O", "P", "Q", "R",
    "S", "T", "U", "V", "W", "X", "Y", "Z", "[", "\\", "]", "^",
    "_", "U+0060", "a", "b", "c", "d", "e", "f", "g", "h", "i", "j",
    "k", "l", "m", "n", "o", "p", "q", "r", "s", "t", "u", "v",
    "w", "x", "y", "z", "{", "|", "}", "~", "U+0085", "U+00A0", "¡", "¢",
    "£", "¤", "¥", "¦", "§", "¨", "©", "ª", "«", "¬", "U+00AD", "®",
    "¯", "°", "±", "²", "³", "´", "µ", "¶", "·", "¸", "¹", "º",
    "»", "¼", "½", "¾", "¿", "À", "Á", "Â", "Ã", "Ä", "Å", "Æ",
    "Ç", "È", "É", "Ê", "Ë", "Ì", "Í", "Î", "Ï", "Ð", "Ñ", "Ò",
    "Ó", "Ô", "Õ", "Ö", "×", "Ø", "Ù", "Ú", "Û", "Ü", "Ý", "Þ",
    "ß", "à", "á", "â", "ã", "ä", "å", "æ", "ç", "è", "é", "ê",
    "ë", "ì", "í", "î", "ï", "ð", "ñ", "ò", "ó", "ô", "õ", "ö",
    "÷", "ø", "ù", "ú", "û", "ü", "ý", "þ", "ÿ", "U+0130", "U+0178", "U+017F",
    "U+0307", "U+039C", "U+03BC", "U+0660", "U+0661", "U+0662", "U+0663", "U+0664", "U+0665", "U+0666", "U+0667", "U+0668",
    "U+0669", "U+0966", "U+0967", "U+0968", "U+0969", "U+096A", "U+096B", "U+096C", "U+096D", "U+096E", "U+096F", "U+1680",
    "U+2000", "U+2001", "U+2002", "U+2003", "U+2004", "U+2005", "U+2006", "U+2007", "U+2008", "U+2009", "U+200A", "U+2028",
    "U+2029", "U+202F", "U+205F", "U+3000", "U+FF10", "U+FF11", "U+FF12", "U+FF13", "U+FF14", "U+FF15", "U+FF16", "U+FF17",
    "U+FF18", "U+FF19" >>

\* The letters str.lower() and str.upper() exchange one for one: Uppers[i]
\* becomes Lowers[i], and Lowers[i] becomes Uppers[i].
Uppers ==
  <<"A", "B", "C", "D", "E", "F", "G", "H", "I", "J", "K", "L",
    "M", "N", "O", "P", "Q", "R", "S", "T", "U", "V", "W", "X",
    "Y", "Z", "À", "Á", "Â", "Ã", "Ä", "Å", "Æ", "Ç", "È", "É",
    "Ê", "Ë", "Ì", "Í", "Î", "Ï", "Ð", "Ñ", "Ò", "Ó", "Ô", "Õ",
    "Ö", "Ø", "Ù", "Ú", "Û", "Ü", "Ý", "Þ", "U+0178", "U+039C" >>

Lowers ==
  <<"a", "b", "c", "d", "e", "f", "g", "h", "i", "j", "k", "l",
    "m", "n", "o", "p", "q", "r", "s", "t", "u", "v", "w", "x",
    "y", "z", "à", "á", "â", "ã", "ä", "å", "æ", "ç", "è", "é",
    "ê", "ë", "ì", "í", "î", "ï", "ð", "ñ", "ò", "ó", "ô", "õ",
    "ö", "ø", "ù", "ú", "û", "ü", "ý", "þ", "ÿ", "U+03BC" >>

\* str.lower() of one character: a str, since one character may become two.
LowerChar(c) ==
    IF c = "U+0130" THEN <<"i", "U+0307">>
    ELSE LET hits == {i \in DOMAIN Uppers : Uppers[i] = c} IN
         IF hits = {} THEN <<c>> ELSE <<Lowers[CHOOSE i \in hits : TRUE]>>

\* str.upper() of one character.
UpperChar(c) ==
    IF c = "µ" THEN <<"U+039C">>
    ELSE IF c = "ß" THEN <<"S", "S">>
    ELSE IF c = "U+017F" THEN <<"S">>
    ELSE LET hits == {i \in DOMAIN Lowers : Lowers[i] = c} IN
         IF hits = {} THEN <<c>> ELSE <<Uppers[CHOOSE i \in hits : TRUE]>>

RECURSIVE LowerStr(_)
LowerStr(s) == IF s = <<>> THEN <<>> ELSE LowerChar(Head(s)) \o LowerStr(Tail(s))

RECURSIVE UpperStr(_)
UpperStr(s) == IF s = <<>> THEN <<>> ELSE UpperChar(Head(s)) \o UpperStr(Tail(s))

\* The whitespace str.split() and str.strip() cut at: the characters for
\* which str.isspace() holds.
Whitespace ==
  {"\t", "\n", "U+000B", "\f", "\r", "U+001C", "U+001D", "U+001E", "U+001F", " ",
   "U+0085", "U+00A0", "U+1680", "U+2000", "U+2001", "U+2002", "U+2003", "U+2004", "U+2005", "U+2006",
   "U+2007", "U+2008", "U+2009", "U+200A", "U+2028", "U+2029", "U+202F", "U+205F", "U+3000"}

IsSpace(c) == c \in Whitespace

\* str.strip(): leading and trailing whitespace removed.
RECURSIVE LStrip(_)
LStrip(s) ==
    IF s = <<>> THEN <<>>
    ELSE IF IsSpace(Head(s)) THEN LStrip(Tail(s)) ELSE s

RECURSIVE RStrip(_)
RStrip(s) ==
    IF s = <<>> THEN <<>>
    ELSE IF IsSpace(s[Len(s)]) THEN RStrip(SubSeq(s, 1, Len(s) - 1)) ELSE s

Strip(s) == RStrip(LStrip(s))

\* str.split() with no separator: the maximal runs of non-whitespace.
\* SplitFrom(s, cur, acc): cur is the token being read, acc the tokens read.
RECURSIVE SplitFrom(_, _, _)
SplitFrom(s, cur, acc) ==
    IF s = <<>>
    THEN IF cur = <<>> THEN acc ELSE Append(acc, cur)
    ELSE IF IsSpace(Head(s))
         THEN SplitFrom(Tail(s), <<>>, IF cur = <<>> THEN acc ELSE Append(acc, cur))
         ELSE SplitFrom(Tail(s), Append(cur, Head(s)), acc)

Split(s) == SplitFrom(s, <<>>, <<>>)

\* " ".join(tokens)
RECURSIVE Join(_)
Join(toks) ==
    IF toks = <<>> THEN <<>>
    ELSE IF Len(toks) = 1 THEN toks[1]
    ELSE toks[1] \o <<" ">> \o Join(Tail(toks))

\* ------------------------------------------------------------------ int()
\* The decimal digits int() reads, ten of each script in the order of their
\* values.
DecimalDigits ==
  <<"0", "1", "2", "3", "4", "5", "6", "7", "8", "9",
    "U+0660", "U+0661", "U+0662", "U+0663", "U+0664", "U+0665", "U+0666", "U+0667", "U+0668", "U+0669",
    "U+0966", "U+0967", "U+0968", "U+0969", "U+096A", "U+096B", "U+096C", "U+096D", "U+096E", "U+096F",
    "U+FF10", "U+FF11", "U+FF12", "U+FF13", "U+FF14", "U+FF15", "U+FF16", "U+FF17", "U+FF18", "U+FF19" >>

IsDigit(c) == \E i \in DOMAIN DecimalDigits : DecimalDigits[i] = c

DigitVal(c) == ((CHOOSE i \in DOMAIN DecimalDigits : DecimalDigits[i] = c) - 1) % 10

\* The token without its optional sign.
Unsigned(tok) ==
    IF tok # <<>> /\ Head(tok) \in {"+", "-"} THEN Tail(tok) ELSE tok

\* int(tok) succeeds: an optional sign, then decimal digits, single
\* underscores allowed between digits, and no more than 4300 digits.
\* Anything else raises ValueError.
IsInt(tok) ==
    LET body == Unsigned(tok) IN
    /\ body # <<>>
    /\ \A i \in 1..Len(body) : IsDigit(body[i]) \/ body[i] = "_"
    /\ IsDigit(body[1])
    /\ IsDigit(body[Len(body)])
    /\ \A i \in 1..(Len(body) - 1) : ~(body[i] = "_" /\ body[i + 1] = "_")
    /\ Cardinality({i \in 1..Len(body) : IsDigit(body[i])}) <= 4300

RECURSIVE DigitsVal(_, _)
DigitsVal(b, acc) ==
    IF b = <<>> THEN acc
    ELSE IF Head(b) = "_" THEN DigitsVal(Tail(b), acc)
    ELSE DigitsVal(Tail(b), 10 * acc + DigitVal(Head(b)))

\* The value of int(tok), for a token IsInt accepts.
IntVal(tok) ==
    LET v == DigitsVal(Unsigned(tok), 0) IN
    IF Head(tok) = "-" THEN 0 - v ELSE v

\* ----------------------------------------------------- str() and "{:,}"
\* The digits str() and format() write.
DigitChars == <<"0","1","2","3","4","5","6","7","8","9">>

Abs(n) == IF n < 0 THEN 0 - n ELSE n

RECURSIVE NatDigits(_)
NatDigits(n) ==
    IF n < 10 THEN <<DigitChars[n + 1]>>
    ELSE Append(NatDigits(n \div 10), DigitChars[(n % 10) + 1])

\* str(n)
StrOfInt(n) == IF n < 0 THEN <<"-">> \o NatDigits(0 - n) ELSE NatDigits(n)

\* Commas between groups of three digits, counted from the right.
RECURSIVE Group3(_)
Group3(d) ==
    IF Len(d) <= 3 THEN d
    ELSE Group3(SubSeq(d, 1, Len(d) - 3)) \o <<",">> \o SubSeq(d, Len(d) - 2, Len(d))

\* f"{n:,}"
FmtComma(n) ==
    IF n < 0 THEN <<"-">> \o Group3(NatDigits(0 - n)) ELSE Group3(NatDigits(n))

\* ------------------------------------------------------------------ state
VARIABLES
    ledger,    \* the rows of Finanzas_Bot.xlsx, in file order (none readable: <<>>)
    budgets,   \* budgets.json: a dict from str(phone) to the amount (none readable: {})
    disk,      \* the state of each file, and the length of budgets.json in bytes
    clock,     \* the tick of the last clock reading
    pc,        \* per worker thread: where it stands in the request it serves
    loc,       \* per worker thread: its request and the locals of its calls
    hist,      \* requests started, add_transaction calls completed, each phone's last budget-set
    query      \* the last get_monthly_expenses_cop call: its arguments and result

vars == <<ledger, budgets, disk, clock, pc, loc, hist, query>>

\* ---------------------------------------------------------- datetime.now()
\* One request reads the clock up to three times: in add_transaction, in
\* get_monthly_expenses_cop and in format_budget_status.
\* The clock is read on the last day of a month (an even tick) and on the
\* first day of the next (an odd tick), starting on 2025-12-31 so that the
\* year changes with the first tick.
Now(t) ==
    LET months == 11 + ((t + 1) \div 2)
        year   == 2025 + (months \div 12)
        month  == (months % 12) + 1
        days   == IF month = 2 THEN (IF year % 4 = 0 THEN 29 ELSE 28)
                  ELSE IF month \in {4, 6, 9, 11} THEN 30 ELSE 31
    IN  [year |-> year, month |-> month, day |-> IF t % 2 = 0 THEN days ELSE 1]

\* Zero-padded decimal of width w ("%Y", "%m", "%d").
RECURSIVE ZeroPad(_, _)
ZeroPad(d, w) == IF Len(d) >= w THEN d ELSE ZeroPad(<<"0">> \o d, w)

\* now.strftime("%Y-%m-%d")
Strftime(now) ==
    ZeroPad(NatDigits(now.year), 4) \o <<"-">> \o ZeroPad(NatDigits(now.month), 2)
        \o <<"-">> \o ZeroPad(NatDigits(now.day), 2)

\* ------------------------------------------------------- Excel operations
\* generate_transaction_id draws 8 random characters; the draw is an input.
\* No reply and no sum reads the ID, so one draw stands for all.
ID_1 == <<"a","1","b","2","c","3","d","4">>

\* A cell of the Fecha column: the str add_transaction writes, or the
\* datetime read_transactions parses it to and save_transactions writes back.
NoDate == [year |-> 0, month |-> 0, day |-> 0]

DateStr(s) == [isStr |-> TRUE, str |-> s, ts |-> NoDate]

Timestamp(d) == [isStr |-> FALSE, str |-> <<>>, ts |-> d]

\* parse_dates=["Fecha", ...] and pd.to_datetime(df["Fecha"]): the date a
\* "%Y-%m-%d" string writes.
to_datetime(cell) ==
    IF cell.isStr
    THEN Timestamp([year  |-> DigitsVal(SubSeq(cell.str, 1, 4), 0),
                    month |-> DigitsVal(SubSeq(cell.str, 6, 7), 0),
                    day   |-> DigitsVal(SubSeq(cell.str, 9, 10), 0)])
    ELSE cell

\* The cell texts pd.read_excel reads as NaN (keep_default_na).
NA_VALUES ==
    {<<>>,
     <<"#", "N", "/", "A">>,
     <<"#", "N", "/", "A", " ", "N", "/", "A">>,
     <<"#", "N", "A">>,
     <<"-", "1", ".", "#", "I", "N", "D">>,
     <<"-", "1", ".", "#", "Q", "N", "A", "N">>,
     <<"-", "N", "a", "N">>,
     <<"-", "n", "a", "n">>,
     <<"1", ".", "#", "I", "N", "D">>,
     <<"1", ".", "#", "Q", "N", "A", "N">>,
     <<"<", "N", "A", ">">>,
     <<"N", "/", "A">>,
     <<"N", "A">>,
     <<"N", "U", "L", "L">>,
     <<"N", "a", "N">>,
     <<"N", "o", "n", "e">>,
     <<"n", "/", "a">>,
     <<"n", "a", "n">>,
     <<"n", "u", "l", "l">>}

\* The cell texts openpyxl writes as an error cell, which is read as NaN.
ERROR_CODES ==
    {<<"#", "N", "U", "L", "L", "!">>,
     <<"#", "D", "I", "V", "/", "0", "!">>,
     <<"#", "V", "A", "L", "U", "E", "!">>,
     <<"#", "R", "E", "F", "!">>,
     <<"#", "N", "A", "M", "E", "?">>,
     <<"#", "N", "U", "M", "!">>,
     <<"#", "N", "/", "A">>}

\* openpyxl writes a text that starts with "=" as a formula; it has no
\* computed value, so it is read as NaN.
is_formula(text) == Len(text) > 1 /\ Head(text) = "="

\* A cell of a text column as pd.read_excel reads it.
read_str(cell) ==
    IF cell.isNone THEN NoneStr
    ELSE IF cell.v \in NA_VALUES \/ cell.v \in ERROR_CODES \/ is_formula(cell.v)
         THEN NoneStr
    ELSE cell

\* A row of the file as pd.read_excel reads it.
read_row(r) ==
    [r EXCEPT !.Fecha = to_datetime(@),
              !.Categoria = read_str(@),
              !.Detalle = read_str(@)]

\* read_transactions(): the rows of the file as read, none when it does not
\* exist.
RECURSIVE read_transactions(_)
read_transactions(file) ==
    IF file = <<>> THEN <<>>
    ELSE <<read_row(Head(file))>> \o read_transactions(Tail(file))

\* save_transactions(df): every value of the frame written to its cell.
save_transactions(df) == df

\* The row add_transaction builds.
new_row(id, now, phone, tipo, cantidad, divisa, tipo_cambio, categoria, detalle) ==
    [ID         |-> id,
     Fecha      |-> DateStr(Strftime(now)),
     Tipo       |-> tipo,
     Cantidad   |-> cantidad,
     Divisa     |-> divisa,
     TipoCambio |-> tipo_cambio,
     Categoria  |-> Some(categoria),
     Detalle    |-> Some(detalle),
     Notas      |-> None,
     Productos  |-> None,
     Ubicacion  |-> None,
     Telefono   |-> phone,
     Creado     |-> now]

\* pd.concat([df, pd.DataFrame([new_row])], ignore_index=True)
concat(df, row) == Append(df, row)

\* add_transaction run start to finish without another writer in between:
\* the file's rows as read, the new row appended, written back.

\* ------------------------------------------------------ budget operations
\* _load_budgets(): the dict of budgets.json, empty when it does not exist.
load_budgets(file) == file

\* budgets[str(phone)] = amount
dict_set(d, phone, amount) ==
    [k \in (DOMAIN d) \cup {StrOfInt(phone)} |->
        IF k = StrOfInt(phone) THEN amount ELSE d[k]]

\* get_budget(phone): budgets.get(str(phone))
get_budget(file, phone) ==
    LET d == load_budgets(file) IN
    IF StrOfInt(phone) \in DOMAIN d THEN Some(d[StrOfInt(phone)]) ELSE NoneVal

\* ----------------------------------------------------------- budget status
\* The mask of get_monthly_expenses_cop.
mask(r, phone, year, month) ==
    /\ r.Telefono = phone
    /\ r.Tipo = "egreso"
    /\ to_datetime(r.Fecha).ts.year = year
    /\ to_datetime(r.Fecha).ts.month = month

\* The Cantidad_COP column.
cantidad_cop(r) ==
    IF r.Divisa = <<"U","S","D">> THEN r.Cantidad * r.TipoCambio ELSE r.Cantidad

RECURSIVE SumCop(_)
SumCop(rows) == IF rows = <<>> THEN 0 ELSE cantidad_cop(Head(rows)) + SumCop(Tail(rows))

\* get_monthly_expenses_cop(phone, year, month); year and month 0 stand for
\* an argument that is None or 0 ("year or now.year").
get_monthly_expenses_cop(file, now, phone, year, month) ==
    LET y  == IF year = 0 THEN now.year ELSE year
        m  == IF month = 0 THEN now.month ELSE month
        df == read_transactions(file)
        expenses == SelectSeq(df, LAMBDA r : mask(r, phone, y, m))
        \* groupby("Categoría") leaves out the rows whose category is NaN
        cats == {expenses[i].Categoria.v :
                    i \in {j \in 1..Len(expenses) : ~expenses[j].Categoria.isNone}}
    IN  IF df = <<>> THEN [total |-> 0, by_category |-> EmptyDict]
        ELSE IF expenses = <<>> THEN [total |-> 0, by_category |-> EmptyDict]
        ELSE [total |-> SumCop(expenses),
              by_category |->
                 [c \in cats |->
                    SumCop(SelectSeq(expenses, LAMBDA r : r.Categoria = Some(c)))]]

\* The percentage is computed in binary floating point.  A positive double
\* is its 53 binary digits m, most significant first, and the power of two e
\* of the first of them.
\* The number of binary digits of a natural number below 2^31.
BitLen(n) ==
    IF n >= 2^30 THEN 31
    ELSE CHOOSE k \in 0..30 : n < 2^k /\ (k = 0 \/ n >= 2^(k - 1))

\* The binary digits of a natural number below 2^31, none for 0.
Bits(n) == [i \in 1..BitLen(n) |-> (n \div 2^(BitLen(n) - i)) % 2]

\* The natural number a run of binary digits writes.
RECURSIVE BitsVal(_)
BitsVal(b) ==
    IF b = <<>> THEN 0
    ELSE IF Len(b) = 1 THEN b[1]
    ELSE LET h == Len(b) \div 2 IN
         BitsVal(SubSeq(b, 1, h)) * 2^(Len(b) - h) + BitsVal(SubSeq(b, h + 1, Len(b)))

Zeros(k) == [i \in 1..k |-> 0]

\* A binary numeral without its leading zeros.
Trim(b) ==
    IF \A i \in 1..Len(b) : b[i] = 0 THEN <<>>
    ELSE SubSeq(b, CHOOSE i \in 1..Len(b) : b[i] = 1 /\ \A k \in 1..(i - 1) : b[k] = 0,
                Len(b))

\* The next 4 * k binary digits of the fraction r / d (r < d < 2^27), and
\* the remainder left.
RECURSIVE FracBits(_, _, _, _)
FracBits(r, d, k, acc) ==
    IF k = 0 THEN [bits |-> acc, rem |-> r]
    ELSE LET q == (16 * r) \div d IN
         FracBits((16 * r) % d, d, k - 1,
                  acc \o <<(q \div 8) % 2, (q \div 4) % 2, (q \div 2) % 2, q % 2>>)

\* The zero digits that open the fraction r / d (0 < r < d), and r shifted
\* past them.
SkipZeros(r, d) ==
    LET z == CHOOSE k \in 0..(BitLen(d) - BitLen(r)) :
                2^(k + 1) * r >= d /\ (k = 0 \/ 2^k * r < d)
    IN  [rem |-> 2^z * r, zeros |-> z]

\* A binary numeral plus one.
Inc(b) ==
    IF \A i \in 1..Len(b) : b[i] = 1 THEN <<1>> \o Zeros(Len(b))
    ELSE LET j == CHOOSE i \in 1..Len(b) :
                     b[i] = 0 /\ \A k \in (i + 1)..Len(b) : b[k] = 1
         IN  [i \in 1..Len(b) |-> IF i < j THEN b[i] ELSE IF i = j THEN 1 ELSE 0]

\* The j-th group of 15 binary digits of b, counted from the right and from 0.
Limb(b, j) ==
    BitsVal(SubSeq(b, IF Len(b) - 15 * j - 14 < 1 THEN 1 ELSE Len(b) - 15 * j - 14,
                   Len(b) - 15 * j))

\* b times c from the j-th group on, with the carry of the groups before it.
RECURSIVE MulLimbs(_, _, _, _)
MulLimbs(b, c, j, carry) ==
    IF 15 * j >= Len(b) THEN Bits(carry)
    ELSE LET p  == Limb(b, j) * c + carry
             lo == Bits(p % 2^15)
         IN  MulLimbs(b, c, j + 1, p \div 2^15) \o Zeros(15 - Len(lo)) \o lo

\* A binary numeral times a natural number below 2^15.
MulSmall(b, c) == Trim(MulLimbs(b, c, 0, 0))

\* Round to nearest, ties to even, to 53 digits: sig is a numeral of more
\* than 53 digits that starts with 1 and whose first digit weighs 2^e, sticky
\* tells whether anything non-zero follows it.
RoundDouble(sig, e, sticky) ==
    LET top   == SubSeq(sig, 1, 53)
        rest  == SubSeq(sig, 55, Len(sig))
        up    == /\ sig[54] = 1
                 /\ \/ sticky
                    \/ \E i \in 1..Len(rest) : rest[i] = 1
                    \/ top[53] = 1
        m     == IF up THEN Inc(top) ELSE top
    IN  IF Len(m) = 54 THEN [m |-> SubSeq(m, 1, 53), e |-> e + 1]
        ELSE [m |-> m, e |-> e]

\* s / d for two positive ints (s < 2^31, d < 2^27): the quotient correctly
\* rounded.
TrueDiv(s, d) ==
    LET whole == Bits(s \div d)
        r0    == s % d
    IN  IF whole # <<>>
        THEN LET f == FracBits(r0, d, (57 - Len(whole)) \div 4, <<>>) IN
             RoundDouble(whole \o f.bits, Len(whole) - 1, f.rem # 0)
        ELSE LET k == SkipZeros(r0, d)
                 f == FracBits(k.rem, d, 14, <<>>)
             IN  RoundDouble(f.bits, 0 - (k.zeros + 1), f.rem # 0)

\* x * 100 for a positive double x.
Times100(x) ==
    LET p == MulSmall(x.m, 100) IN RoundDouble(p, x.e + (Len(p) - 53), FALSE)

\* round(x, 1) for a positive double x below 2^52, counted in tenths: the
\* multiple of 0.1 nearest to the exact value of x, ties to the even one.
RoundTenths(x) ==
    LET ten   == MulSmall(x.m, 10)
        sh    == 52 - x.e
        whole == IF Len(ten) > sh THEN SubSeq(ten, 1, Len(ten) - sh) ELSE <<>>
        frac  == IF Len(ten) > sh THEN SubSeq(ten, Len(ten) - sh + 1, Len(ten))
                 ELSE Zeros(sh - Len(ten)) \o ten
        k     == BitsVal(whole)
        up    == /\ frac[1] = 1
                 /\ \/ \E i \in 2..Len(frac) : frac[i] = 1
                    \/ k % 2 = 1
    IN  IF up THEN k + 1 ELSE k

\* round((spent / budget * 100) if budget > 0 else 0, 1): a float counted in
\* tenths (neg: the sign of the unrounded float), or the int 0.
percentage(spent, budget) ==
    IF budget > 0
    THEN [isFloat |-> TRUE, neg |-> spent < 0,
          tenths |-> IF spent = 0 THEN 0
                     ELSE RoundTenths(Times100(TrueDiv(Abs(spent), budget)))]
    ELSE [isFloat |-> FALSE, neg |-> FALSE, tenths |-> 0]

\* get_budget_status once get_budget has returned budget and
\* get_monthly_expenses_cop has returned exp.
get_budget_status(budget, exp) ==
    IF budget.isNone
    THEN [has_budget  |-> FALSE,
          spent_cop   |-> exp.total,
          by_category |-> exp.by_category]
    ELSE [has_budget  |-> TRUE,
          budget      |-> budget.v,
          spent_cop   |-> exp.total,
          percentage  |-> percentage(exp.total, budget.v),
          remaining   |-> budget.v - exp.total,
          by_category |-> exp.by_category]

\* --------------------------------------------------------------- replies
\* The command words and the literals of app.py, as strings of characters.
W_gasto == <<"g", "a", "s", "t", "o">>
W_egreso == <<"e", "g", "r", "e", "s", "o">>
W_ingreso == <<"i", "n", "g", "r", "e", "s", "o">>
W_entrada == <<"e", "n", "t", "r", "a", "d", "a">>
W_tope == <<"t", "o", "p", "e">>
W_presupuesto == <<"p", "r", "e", "s", "u", "p", "u", "e", "s", "t", "o">>
W_estado == <<"e", "s", "t", "a", "d", "o">>
W_resumen == <<"r", "e", "s", "u", "m", "e", "n">>
W_ayuda == <<"a", "y", "u", "d", "a">>
W_USD == <<"U", "S", "D">>
W_COP == <<"C", "O", "P">>

\* The rank of a character among the characters of the texts, which is the
\* order of the code points sorted() compares.
Ord(c) == CHOOSE i \in DOMAIN Alphabet : Alphabet[i] = c

\* a < b for two str values: by code point, a proper prefix first.
RECURSIVE StrLess(_, _)
StrLess(a, b) ==
    IF b = <<>> THEN FALSE
    ELSE IF a = <<>> THEN TRUE
    ELSE IF Head(a) = Head(b) THEN StrLess(Tail(a), Tail(b))
    ELSE Ord(Head(a)) < Ord(Head(b))

\* sorted(keys)
RECURSIVE Sorted(_)
Sorted(S) ==
    IF S = {} THEN <<>>
    ELSE LET m == CHOOSE x \in S : \A y \in S \ {x} : StrLess(x, y)
         IN  <<m>> \o Sorted(S \ {m})

months_es == <<"Enero", "Febrero", "Marzo", "Abril", "Mayo", "Junio", "Julio",
               "Agosto", "Septiembre", "Octubre", "Noviembre", "Diciembre">>

\* f"{status['percentage']}": repr of the rounded float, or of the int 0.
FmtPct(p) ==
    IF ~p.isFloat THEN <<"0">>
    ELSE (IF p.neg THEN <<"-">> ELSE <<>>)
            \o NatDigits(Abs(p.tenths) \div 10) \o <<".">>
            \o NatDigits(Abs(p.tenths) % 10)

\* "\n".join(lines)
RECURSIVE JoinLines(_)
JoinLines(lines) ==
    IF lines = <<>> THEN <<>>
    ELSE IF Len(lines) = 1 THEN lines[1]
    ELSE lines[1] \o <<"\n">> \o JoinLines(Tail(lines))

\* The "Por categoria" lines, one per category, sorted.
RECURSIVE CategoryLines(_, _)
CategoryLines(cats, by_category) ==
    IF cats = <<>> THEN <<>>
    ELSE <<(<<"  - ">> \o Head(cats) \o <<": $">>
                \o FmtComma(by_category[Head(cats)]) \o <<" COP">>)>>
            \o CategoryLines(Tail(cats), by_category)

\* format_budget_status(status): the lines, joined; now is its clock reading.
format_budget_status(status, now) ==
    JoinLines(
    <<(<<"Estado del presupuesto - ", months_es[now.month], " ">>
            \o StrOfInt(now.year))>>
    \o (IF ~status.has_budget
        THEN << <<"Gastado este mes: $">> \o FmtComma(status.spent_cop) \o <<" COP">>,
                <<>>,
                <<"No tienes un tope mensual configurado.">>,
                <<"Usa *tope <monto>* para definirlo.">> >>
        ELSE << <<"Tope mensual: $">> \o FmtComma(status.budget) \o <<" COP">>,
                <<"Gastado: $">> \o FmtComma(status.spent_cop) \o <<" COP (">>
                    \o FmtPct(status.percentage) \o <<"%)">>,
                IF status.remaining >= 0
                THEN <<"Disponible: $">> \o FmtComma(status.remaining) \o <<" COP">>
                ELSE <<"EXCEDIDO por: $">> \o FmtComma(Abs(status.remaining))
                        \o <<" COP">> >>)
    \o (IF DOMAIN status.by_category # {}
        THEN << <<>>, <<"Por categoria:">> >>
                \o CategoryLines(Sorted(DOMAIN status.by_category), status.by_category)
        ELSE <<>>))

msg_ayuda ==
    <<"Comandos disponibles:\n\n*gasto <monto> <categoria> <detalle>*\n  Registrar un gasto en COP\n  Ej: gasto 50000 alimentacion almuerzo\n\n*gasto <monto> USD <categoria> <detalle>*\n  Registrar un gasto en dolares\n  Ej: gasto 20 USD tecnologia hosting\n\n*ingreso <monto> <categoria> <detalle>*\n  Registrar un ingreso\n  Ej: ingreso 3000000 salario mensual\n\n*tope <monto>*\n  Definir tope mensual en COP\n  Ej: tope 2000000\n\n*estado*\n  Ver resumen del mes (gastado, % y disponible)\n\n*ayuda*\n  Ver este mensaje">>

msg_no_entendi ==
    <<"No entendi el comando. Escribe *ayuda* para ver los comandos disponibles.">>

msg_formato_gasto ==
    <<"Formato: *gasto <monto> <categoria> <detalle>*\nEjemplo: gasto 50000 alimentacion almuerzo\nPara USD: gasto 20 USD tecnologia hosting">>

msg_formato_ingreso ==
    <<"Formato: *ingreso <monto> <categoria> <detalle>*\nEjemplo: ingreso 3000000 salario mensual">>

\* The phrase the three amount errors share, then each one's example.
msg_monto == "El monto debe ser un numero"

\* Mutant: the amount error answers with the usage message.
msg_monto_gasto_usage == msg_formato_gasto

msg_monto_gasto == <<msg_monto, ". Ejemplo: *gasto 50000 alimentacion almuerzo*">>

msg_monto_ingreso == <<msg_monto, ". Ejemplo: *ingreso 3000000 salario mensual*">>

msg_monto_tope == <<msg_monto, ". Ejemplo: *tope 2000000*">>

msg_no_tope ==
    <<"No tienes un tope mensual. Usa: *tope <monto>*\nEjemplo: tope 2000000">>

\* ------------------------------------------------------- command handlers
\* A handler runs up to its first store call: it returns a reply, or goes on
\* to the store call at a label of the program below, with the amount it
\* has parsed.
Return(reply) == [next |-> "return", reply |-> reply, amount |-> 0]

Goto(label, amount) == [next |-> label, reply |-> <<>>, amount |-> amount]

\* The currency token of handle_gasto and handle_ingreso.
is_currency(args) ==
    Len(args) > 1 /\ UpperStr(args[2]) \in {W_USD, W_COP}

divisa_of(args) == IF is_currency(args) THEN UpperStr(args[2]) ELSE W_COP

next_idx_of(args) == IF is_currency(args) THEN 2 ELSE 1

categoria_of(args) ==
    IF Len(args) > next_idx_of(args) THEN args[next_idx_of(args) + 1] ELSE <<"g", "e", "n", "e", "r", "a", "l">>

detalle_of(args) ==
    IF Len(args) > next_idx_of(args) + 1
    THEN Join(SubSeq(args, next_idx_of(args) + 2, Len(args)))
    ELSE <<>>

\* handle_gasto up to add_transaction.
handle_gasto(args) ==
    IF Len(args) < 2 THEN Return(msg_formato_gasto)
    ELSE IF ~IsInt(args[1]) THEN Return(msg_monto_gasto)
    ELSE Goto("add_read", IntVal(args[1]))

\* The response of handle_gasto before the budget status is appended.
gasto_response(args) ==
    LET cantidad == IntVal(args[1])
        divisa   == divisa_of(args)
        cop      == IF divisa = W_USD THEN cantidad * DEFAULT_TIPO_CAMBIO ELSE cantidad
    IN  <<"Gasto registrado: $">> \o FmtComma(cantidad) \o <<" ">> \o divisa
        \o (IF divisa = W_USD THEN <<" ($">> \o FmtComma(cop) \o <<" COP)">> ELSE <<>>)
        \o <<" en ">> \o categoria_of(args)
        \o (IF detalle_of(args) # <<>> THEN <<" - ">> \o detalle_of(args) ELSE <<>>)

\* handle_ingreso up to add_transaction.
handle_ingreso(args) ==
    IF Len(args) < 2 THEN Return(msg_formato_ingreso)
    ELSE IF ~IsInt(args[1]) THEN Return(msg_monto_ingreso)
    ELSE Goto("add_read", IntVal(args[1]))

ingreso_response(args) ==
    <<"Ingreso registrado: $">> \o FmtComma(IntVal(args[1])) \o <<" ">> \o divisa_of(args)
        \o <<" en ">> \o categoria_of(args)

\* handle_tope up to get_budget or set_budget.
handle_tope(args) ==
    IF args = <<>> THEN Goto("tope_load", 0)
    ELSE IF ~IsInt(args[1]) THEN Return(msg_monto_tope)
    ELSE Goto("set_load", IntVal(args[1]))

\* The reply of "tope" alone, get_budget having returned budget: "if
\* budget:" is false for None and for 0.
tope_response(budget) ==
    IF ~budget.isNone /\ budget.v # 0
    THEN <<"Tu tope mensual actual es: $">> \o FmtComma(budget.v)
            \o <<" COP\nPara cambiarlo: *tope <monto>*">>
    ELSE msg_no_tope

\* The reply of "tope <monto>".
set_response(amount) ==
    <<"Tope mensual actualizado: $">> \o FmtComma(amount) \o <<" COP">>

\* Mutant: asking for the status stores a budget of 0.
handle_estado_setdefault == Goto("set_load", 0)

\* handle_estado up to get_budget_status.
handle_estado == Goto("budget_load", 0)

\* text.lower().split()
parts_of(text) == Split(LowerStr(text))

\* handle_message up to the first store call of the handler it picks.
handle_message(text) ==
    LET parts == parts_of(text) IN
    IF parts = <<>> THEN Return(msg_ayuda)
    ELSE IF parts[1] \in {W_gasto, W_egreso} THEN handle_gasto(Tail(parts))
    ELSE IF parts[1] \in {W_ingreso, W_entrada} THEN handle_ingreso(Tail(parts))
    ELSE IF parts[1] \in {W_tope, W_presupuesto} THEN handle_tope(Tail(parts))
    ELSE IF parts[1] \in {W_estado, W_resumen} THEN handle_estado
    ELSE IF parts[1] = W_ayuda THEN Return(msg_ayuda)
    ELSE Return(msg_no_entendi)

\* ---------------------------------------------------------------- webhook
\* parse_incoming(data): the sender and the stripped text of the first
\* message, (None, None) for a payload without messages or on a KeyError or
\* IndexError.  A payload is the JSON document, objects as records and
\* arrays as sequences.
parse_incoming(data) ==
    LET none == [phone |-> NoneStr, text |-> NoneStr] IN
    IF "entry" \notin DOMAIN data THEN none
    ELSE IF data.entry = <<>> THEN none
    ELSE IF "changes" \notin DOMAIN data.entry[1] THEN none
    ELSE IF data.entry[1].changes = <<>> THEN none
    ELSE IF "value" \notin DOMAIN data.entry[1].changes[1] THEN none
    ELSE LET value == data.entry[1].changes[1].value IN
         IF "messages" \notin DOMAIN value THEN none
         ELSE IF value.messages = <<>> THEN none
         ELSE LET message == value.messages[1] IN
              IF "from" \notin DOMAIN message THEN none
              ELSE [phone |-> Some(message.from),
                    text  |-> Some(Strip(
                                 IF "text" \in DOMAIN message
                                 THEN IF "body" \in DOMAIN message.text
                                      THEN message.text.body ELSE <<>>
                                 ELSE <<>>))]

\* "if phone and text": neither None nor empty.
phone_and_text(pt) ==
    /\ ~pt.phone.isNone /\ pt.phone.v # <<>>
    /\ ~pt.text.isNone /\ pt.text.v # <<>>

\* send_message(phone, text): the message posted when the API answers 200;
\* requests.post raises when the POST fails and raise_for_status raises on
\* an answer of 400 and above.
send_message(phone, text, answer) ==
    IF answer = "ConnectionError" THEN [raises |-> "ConnectionError", sent |-> <<>>]
    ELSE IF answer \in {"401", "500"} THEN [raises |-> "HTTPError", sent |-> <<>>]
    ELSE [raises |-> "", sent |-> <<[to |-> phone, body |-> text]>>]

\* ----------------------------------------------------------------- inputs
\* A sender is a WhatsApp id, a string of decimal digits, and a message is any
\* text.
T_GastoCop == <<"g", "a", "s", "t", "o", " ", "5", "0", "0", "0", "0", " ", "c", "o", "m", "i", "d", "a", " ", "d", "e", "t", "a", "i", "l">>
T_GastoUsd == <<"g", "a", "s", "t", "o", " ", "2", "0", " ", "U", "S", "D", " ", "t", "e", "c", "n", "o", "l", "o", "g", "i", "a", " ", "h", "o", "s", "t", "i", "n", "g">>
T_GastoCatUsd == <<"g", "a", "s", "t", "o", " ", "5", " ", "u", "s", "d", " ", "d", "e", "t", "a", "i", "l">>
T_GastoTaxi == <<"g", "a", "s", "t", "o", " ", "-", "3", " ", "T", "a", "x", "i", " ", "d", "e", "t", "a", "i", "l">>
T_GastoNull == <<"g", "a", "s", "t", "o", " ", "5", " ", "n", "u", "l", "l", " ", "d", "e", "t", "a", "i", "l">>
T_GastoLongS == <<"g", "a", "s", "t", "o", " ", "5", " ", "u", "U+017F", "d", " ", "d", "e", "t", "a", "i", "l">>
T_GastoUnicode == <<"G", "A", "S", "T", "O", "\r", "U+0663", " ", "C", "A", "F", "É", " ", "=", "1", "+", "1">>
T_Ingreso == <<"i", "n", "g", "r", "e", "s", "o", " ", "3", "0", "0", "0", "0", "0", "0", " ", "s", "a", "l", "a", "r", "i", "o", " ", "m", "e", "n", "s", "u", "a", "l">>
T_GastoNoInt == <<"g", "a", "s", "t", "o", " ", "a", "b", "c", " ", "c", "o", "m", "i", "d", "a">>
T_GastoNoIntAlone == <<"g", "a", "s", "t", "o", " ", "a", "b", "c">>
T_EgresoFloat == <<"e", "g", "r", "e", "s", "o", " ", "5", ".", "5", " ", "c", "o", "m", "i", "d", "a", " ", "x">>
T_EntradaNoInt == <<"e", "n", "t", "r", "a", "d", "a", " ", "a", "b", "c", " ", "s", "a", "l", "a", "r", "i", "o">>
T_IngresoNoIntAlone == <<"i", "n", "g", "r", "e", "s", "o", " ", "1", "_">>
T_Gasto == <<"g", "a", "s", "t", "o">>
T_GastoOne == <<"g", "a", "s", "t", "o", " ", "5">>
T_Tope == <<"t", "o", "p", "e">>
T_Presupuesto == <<"p", "r", "e", "s", "u", "p", "u", "e", "s", "t", "o">>
T_TopeNoInt == <<"t", "o", "p", "e", " ", "a", "b", "c">>
T_TopeZero == <<"t", "o", "p", "e", " ", "0">>
T_TopeSet == <<"t", "o", "p", "e", " ", "1", "0", "0", "0", "0", "0">>
T_Estado == <<"e", "s", "t", "a", "d", "o">>
T_Resumen == <<"R", "E", "S", "U", "M", "E", "N">>
T_Ayuda == <<"a", "y", "u", "d", "a">>
T_AyudaCR == <<"a", "y", "u", "d", "a", "\r", "\n">>
T_Foo == <<"f", "o", "o", " ", "b", "a", "r">>
T_Empty == <<>>
T_Blank == <<" ", " ">>
P_571 == <<"5", "7", "1">>
P_572 == <<"5", "7", "2">>

\* The messages that record a transaction: in both currencies, with a
\* currency code where the category is expected (one of them spelled with a
\* long s, which upper() turns into S), in mixed case, with a category that
\* is read back as NaN, and with a carriage return for a blank, an
\* Arabic-Indic digit, an accented capital and a detail that is a formula.
Texts ==
    {T_GastoCop, T_GastoUsd, T_GastoCatUsd, T_GastoTaxi, T_GastoNull, T_GastoLongS,
     T_GastoUnicode, T_Ingreso,
     \* every other path: the synonyms, the error paths, upper case, the
     \* budget commands, the read-only commands, empty and blank text
     T_GastoNoInt, T_GastoNoIntAlone, T_EgresoFloat, T_EntradaNoInt,
     T_IngresoNoIntAlone, T_Gasto, T_GastoOne, T_Tope,
     T_Presupuesto, T_TopeNoInt, T_TopeZero, T_TopeSet, T_Estado, T_Resumen,
     T_Ayuda, T_AyudaCR, T_Foo, T_Empty, T_Blank}

\* The parser's inputs: one sender, every message.
Requests == {P_571} \X Texts

\* The accounting inputs: two senders who record expenses in both
\* currencies and income, set a budget (0 included) and ask for the status.
AcctRequests ==
    ({P_571} \X {T_GastoCop, T_GastoUsd, T_Ingreso, T_TopeZero, T_TopeSet,
                 T_Estado, T_Tope})
      \cup ({P_572} \X {T_GastoCop, T_TopeSet, T_Resumen})

\* The store inputs: two senders who record, set a budget (0 included)
\* and ask for it and for the status.
ConcRequests ==
    ({P_571} \X {T_GastoCop, T_TopeSet, T_Estado})
      \cup ({P_572} \X {T_GastoUsd, T_TopeZero, T_Tope})

\* A webhook payload carrying one message.
Payload(message) ==
    [object |-> "whatsapp_business_account",
     entry  |-> << [changes |-> << [value |-> [messages |-> <<message>>]] >>] >>]

\* Webhook payloads: text messages, a message without text (an image), a
\* text of blanks, a status update, an empty entry list, no entry at all.
Payloads ==
    {Payload([from |-> P_571, text |-> [body |-> <<" ">> \o T_GastoCop \o <<"\n">>]]),
     Payload([from |-> P_572, text |-> [body |-> <<"U+00A0">> \o T_Estado \o <<"\r", "\n">>]]),
     Payload([from |-> P_571, text |-> [body |-> T_Empty]]),
     Payload([from |-> P_571, text |-> [body |-> T_Blank]]),
     Payload([from |-> P_572, type |-> "image"]),
     Payload([type |-> "text", text |-> [body |-> T_Ayuda]]),
     [object |-> "whatsapp_business_account",
      entry  |-> << [changes |-> << [value |-> [statuses |-> <<"delivered">>]] >>] >>],
     [object |-> "whatsapp_business_account", entry |-> <<>>],
     [object |-> "whatsapp_business_account"]}

\* ------------------------------------------------------------ the two files
\* The server has no lock on its files.  to_excel and open(path, "w") empty
\* the file when they open it and write its content when they close it, so
\* a file is absent, whole, empty (opened for writing, not yet written) or
\* broken (a shorter content written over a longer one by two writers that
\* had the file open together).  pd.read_excel and json.load raise on a
\* file that is empty or broken.
unreadable(state) == state \in {"empty", "broken"}

\* The number of bytes json.dump(budgets, f, indent=2) writes: an opening
\* and a closing line, and a line '  "key": value' per key.
RECURSIVE items_len(_, _)
items_len(d, keys) ==
    IF keys = {} THEN 0
    ELSE LET k == CHOOSE x \in keys : TRUE IN
         (IF keys = {k} THEN 0 ELSE 2)
            + 2 + (Len(k) + 2) + 2 + Len(StrOfInt(d[k])) + items_len(d, keys \ {k})

json_len(d) == IF DOMAIN d = {} THEN 2 ELSE 2 + items_len(d, DOMAIN d) + 2

\* ------------------------------------------------------------ state machine
\* The development server serves each request on a thread of its own
\* (app.run, threaded), so the requests in progress interleave at every
\* file operation, clock reading and network call.  Two threads serve them.
Workers == {"w1", "w2"}

\* A thread's request and the locals of the call it is in: kind, phone,
\* text, extracted and calls tell the entry point, its input and whether
\* handle_message was called; parts and amount are the locals of the
\* handler; df and rows those of add_transaction; was and left the ledger
\* file right before its to_excel and right after; budgets the dict of
\* set_budget; budget, status those of get_budget_status; reads the ticks
\* of its clock readings; reply, replied, sent and error how it ended.
NoLocals ==
    [kind |-> "none", phone |-> <<>>, text |-> <<>>, extracted |-> FALSE, calls |-> 0,
     parts |-> <<>>, amount |-> 0,
     df |-> <<>>, rows |-> <<>>, was |-> <<>>, left |-> <<>>,
     budgets |-> EmptyDict, budget |-> NoneVal, 
     status |-> [has_budget |-> FALSE, spent_cop |-> 0, by_category |-> EmptyDict],
     reads |-> [add |-> 0, expenses |-> 0, format |-> 0],
     reply |-> <<>>, replied |-> FALSE, sent |-> <<>>, error |-> ""]

NoQuery == [done |-> FALSE, phone |-> 0, year |-> 0, month |-> 0,
            total |-> 0, by_category |-> EmptyDict]

Init ==
    /\ ledger = <<>>
    /\ budgets = EmptyDict
    /\ disk = [ledger |-> "absent", budgets |-> "absent", bytes |-> 0]
    /\ clock = 0
    /\ pc = [t \in Workers |-> "idle"]
    /\ loc = [t \in Workers |-> NoLocals]
    /\ hist = [added |-> <<>>, lastSet |-> EmptyDict, started |-> 0]
    /\ query = NoQuery

\* Where a thread goes when handle_message returns: receive_message sends
\* the reply, a direct call is over.
AfterHandler(t) == IF loc[t].kind = "receive_message" THEN "send" ELSE "returned"

\* The thread's call ends with an exception.
Raise(t, error) ==
    /\ pc' = [pc EXCEPT ![t] = "raised"]
    /\ loc' = [loc EXCEPT ![t].error = error]

\* handle_message(phone, text) is called and runs up to its first store
\* call, or to its return when it makes none.
Enter(t, kind, phone, text) ==
    LET h == handle_message(text) IN
    /\ loc' = [loc EXCEPT ![t] =
                 [NoLocals EXCEPT !.kind = kind, !.phone = phone, !.text = text,
                                  !.extracted = TRUE, !.calls = 1,
                                  !.parts = parts_of(text), !.amount = h.amount,
                                  !.reply = h.reply, !.replied = (h.next = "return")]]
    /\ pc' = [pc EXCEPT ![t] =
                 IF h.next # "return" THEN h.next
                 ELSE IF kind = "receive_message" THEN "send" ELSE "returned"]

\* A direct call of handle_message(phone, text), on a thread that serves no
\* request.
HandleMessage(t, phone, text) ==
    /\ pc[t] \in {"idle", "returned", "raised"}
    /\ Enter(t, "handle_message", phone, text)
    /\ hist' = [hist EXCEPT !.started = @ + 1]
    /\ UNCHANGED <<ledger, budgets, disk, clock, query>>

\* POST /webhook: receive_message up to the first store call of
\* handle_message, or to its return when nothing is extracted.
ReceiveMessage(t, data) ==
    LET pt == parse_incoming(data) IN
    /\ pc[t] \in {"idle", "returned", "raised"}
    /\ IF phone_and_text(pt)
       THEN Enter(t, "receive_message", pt.phone.v, pt.text.v)
       ELSE /\ loc' = [loc EXCEPT ![t] =
                         [NoLocals EXCEPT
                            !.kind = "receive_message", !.phone = pt.phone.v,
                            !.text = pt.text.v,
                            !.extracted = ~pt.phone.isNone /\ ~pt.text.isNone]]
            /\ pc' = [pc EXCEPT ![t] = "returned"]
    /\ hist' = [hist EXCEPT !.started = @ + 1]
    /\ UNCHANGED <<ledger, budgets, disk, clock, query>>

\* add_transaction: df = read_transactions().
AddRead(t) ==
    /\ pc[t] = "add_read"
    /\ IF unreadable(disk.ledger) THEN Raise(t, "read_excel")
       ELSE /\ loc' = [loc EXCEPT ![t].df = read_transactions(ledger)]
            /\ pc' = [pc EXCEPT ![t] = "add_now"]
    /\ UNCHANGED <<ledger, budgets, disk, clock, hist, query>>

\* add_transaction: now = datetime.now(), the ID is drawn and new_row built.
AddNow(t, id) ==
    /\ pc[t] = "add_now"
    /\ loc' = [loc EXCEPT
                 ![t].rows = <<new_row(id, Now(clock), IntVal(loc[t].phone),
                                       IF loc[t].parts[1] \in {W_gasto, W_egreso} THEN "egreso" ELSE "ingreso",
                                       loc[t].amount, divisa_of(Tail(loc[t].parts)),
                                       DEFAULT_TIPO_CAMBIO, categoria_of(Tail(loc[t].parts)),
                                       detalle_of(Tail(loc[t].parts)))>>,
                 ![t].reads.add = clock]
    /\ pc' = [pc EXCEPT ![t] = "add_open"]
    /\ UNCHANGED <<ledger, budgets, disk, clock, hist, query>>

\* save_transactions: to_excel opens the file for writing, which empties it.
AddOpen(t) ==
    /\ pc[t] = "add_open"
    /\ loc' = [loc EXCEPT ![t].was = ledger]
    /\ ledger' = <<>>
    /\ disk' = [disk EXCEPT !.ledger = "empty"]
    /\ pc' = [pc EXCEPT ![t] = "add_save"]
    /\ UNCHANGED <<budgets, clock, hist, query>>

\* save_transactions: to_excel writes the frame and closes the file, and
\* add_transaction returns.  Over a content another thread has written in
\* the meantime the outcome depends on the sizes of the two archives,
\* which the random IDs and the compression decide: the file is whole
\* when the new content is at least as long, broken otherwise.
AddSave(t, whole) ==
    /\ pc[t] = "add_save"
    /\ whole \/ disk.ledger # "empty"
    /\ ledger' = IF whole THEN save_transactions(concat(loc[t].df, loc[t].rows[1]))
                 ELSE <<>>
    /\ disk' = [disk EXCEPT !.ledger = IF whole THEN "whole" ELSE "broken"]
    /\ hist' = [hist EXCEPT !.added = Append(@, loc[t].rows[1])]
    /\ IF loc[t].parts[1] \in {W_gasto, W_egreso}
       THEN /\ loc' = [loc EXCEPT ![t].left = ledger']
            /\ pc' = [pc EXCEPT ![t] = "budget_load"]
       ELSE /\ loc' = [loc EXCEPT ![t].left = ledger',
                                  ![t].reply = ingreso_response(Tail(loc[t].parts)),
                                  ![t].replied = TRUE]
            /\ pc' = [pc EXCEPT ![t] = AfterHandler(t)]
    /\ UNCHANGED <<budgets, clock, query>>

\* get_budget(phone) in get_budget_status.
StatusBudget(t) ==
    /\ pc[t] = "budget_load"
    /\ IF unreadable(disk.budgets) THEN Raise(t, "JSONDecodeError")
       ELSE /\ loc' = [loc EXCEPT ![t].budget = get_budget(budgets, IntVal(loc[t].phone))]
            /\ pc' = [pc EXCEPT ![t] = "exp_now"]
    /\ UNCHANGED <<ledger, budgets, disk, clock, hist, query>>

\* get_monthly_expenses_cop: now = datetime.now().
ExpensesNow(t) ==
    /\ pc[t] = "exp_now"
    /\ loc' = [loc EXCEPT ![t].reads.expenses = clock]
    /\ pc' = [pc EXCEPT ![t] = "exp_read"]
    /\ UNCHANGED <<ledger, budgets, disk, clock, hist, query>>

\* get_monthly_expenses_cop: df = read_transactions() and the sums, then
\* the rest of get_budget_status.
ExpensesRead(t) ==
    /\ pc[t] = "exp_read"
    /\ IF unreadable(disk.ledger) THEN Raise(t, "read_excel")
       ELSE /\ loc' = [loc EXCEPT
                         ![t].df = read_transactions(ledger),
                         ![t].status =
                            get_budget_status(loc[t].budget,
                               get_monthly_expenses_cop(ledger, Now(loc[t].reads.expenses),
                                                        IntVal(loc[t].phone), 0, 0))]
            /\ pc' = [pc EXCEPT ![t] = "fmt_now"]
    /\ UNCHANGED <<ledger, budgets, disk, clock, hist, query>>

\* format_budget_status: now = datetime.now() and the report; handle_gasto
\* appends it to its response, handle_estado returns it.
FormatStatus(t) ==
    /\ pc[t] = "fmt_now"
    /\ loc' = [loc EXCEPT
                 ![t].reads.format = clock,
                 ![t].reply = (IF loc[t].parts[1] \in {W_gasto, W_egreso} THEN gasto_response(Tail(loc[t].parts)) \o <<"\n\n">>
                               ELSE <<>>)
                              \o format_budget_status(loc[t].status, Now(clock)),
                 ![t].replied = TRUE]
    /\ pc' = [pc EXCEPT ![t] = AfterHandler(t)]
    /\ UNCHANGED <<ledger, budgets, disk, clock, hist, query>>

\* get_budget(phone) in handle_tope, and its reply.
TopeBudget(t) ==
    /\ pc[t] = "tope_load"
    /\ IF unreadable(disk.budgets) THEN Raise(t, "JSONDecodeError")
       ELSE /\ loc' = [loc EXCEPT
                         ![t].budget = get_budget(budgets, IntVal(loc[t].phone)),
                         ![t].reply =
                            tope_response(get_budget(budgets, IntVal(loc[t].phone))),
                         ![t].replied = TRUE]
            /\ pc' = [pc EXCEPT ![t] = AfterHandler(t)]
    /\ UNCHANGED <<ledger, budgets, disk, clock, hist, query>>

\* set_budget: budgets = _load_budgets(); budgets[str(phone)] = amount.
SetLoad(t) ==
    /\ pc[t] = "set_load"
    /\ IF unreadable(disk.budgets) THEN Raise(t, "JSONDecodeError")
       ELSE /\ loc' = [loc EXCEPT
                         ![t].budgets = dict_set(load_budgets(budgets),
                                                 IntVal(loc[t].phone), loc[t].amount)]
            /\ pc' = [pc EXCEPT ![t] = "set_open"]
    /\ UNCHANGED <<ledger, budgets, disk, clock, hist, query>>

\* _save_budgets: open(BUDGETS_PATH, "w") empties the file.
SetOpen(t) ==
    /\ pc[t] = "set_open"
    /\ budgets' = EmptyDict
    /\ disk' = [disk EXCEPT !.budgets = "empty", !.bytes = 0]
    /\ pc' = [pc EXCEPT ![t] = "set_dump"]
    /\ UNCHANGED <<ledger, clock, loc, hist, query>>

\* _save_budgets: json.dump and the close write the text from the start of
\* the file, over whatever another writer has put there since the open; a
\* longer text under it leaves its tail behind.  set_budget returns and
\* handle_tope with it.
SetDump(t) ==
    LET whole == json_len(loc[t].budgets) >= disk.bytes IN
    /\ pc[t] = "set_dump"
    /\ budgets' = IF whole THEN loc[t].budgets ELSE EmptyDict
    /\ disk' = [disk EXCEPT !.budgets = IF whole THEN "whole" ELSE "broken",
                            !.bytes = IF whole THEN json_len(loc[t].budgets) ELSE @]
    /\ hist' = [hist EXCEPT !.lastSet = dict_set(@, IntVal(loc[t].phone), loc[t].amount)]
    /\ loc' = [loc EXCEPT ![t].reply = set_response(loc[t].amount),
                          ![t].replied = TRUE]
    /\ pc' = [pc EXCEPT ![t] = AfterHandler(t)]
    /\ UNCHANGED <<ledger, clock, query>>

\* receive_message: send_message(phone, response_text), then the 200.  The
\* Graph API answers the POST with a status code, or the POST itself fails.
SendMessage(t, answer) ==
    LET out == send_message(loc[t].phone, loc[t].reply, answer) IN
    /\ pc[t] = "send"
    /\ loc' = [loc EXCEPT ![t].sent = out.sent, ![t].error = out.raises]
    /\ pc' = [pc EXCEPT ![t] = IF out.raises = "" THEN "returned" ELSE "raised"]
    /\ UNCHANGED <<ledger, budgets, disk, clock, hist, query>>

\* Midnight passes.
Tick ==
    /\ clock < MaxTick
    /\ clock' = clock + 1
    /\ UNCHANGED <<ledger, budgets, disk, pc, loc, hist, query>>

\* The store calls of a request in progress, one file operation or clock
\* reading at a time.
Step(t) ==
    \/ AddRead(t)
    \/ \E id \in {ID_1} : AddNow(t, id)
    \/ AddOpen(t)
    \/ \E whole \in BOOLEAN : AddSave(t, whole)
    \/ StatusBudget(t)
    \/ ExpensesNow(t)
    \/ ExpensesRead(t)
    \/ FormatStatus(t)
    \/ TopeBudget(t)
    \/ SetLoad(t)
    \/ SetOpen(t)
    \/ SetDump(t)

\* The command parser behind the webhook and called directly: MaxCalls
\* requests, two at a time.
Next ==
    \/ /\ hist.started < MaxCalls
       /\ \E t \in Workers, q \in Requests : HandleMessage(t, q[1], q[2])
    \/ /\ hist.started < MaxCalls
       /\ \E t \in Workers, data \in Payloads : ReceiveMessage(t, data)
    \/ \E t \in Workers : Step(t)
    \/ \E t \in Workers, answer \in {"200", "401", "500", "ConnectionError"} :
          SendMessage(t, answer)
    \/ Tick

Spec == Init /\ [][Next]_vars

\* The accounting engine: two senders around the end of a month, MaxCalls
\* requests.
NextAcct ==
    \/ /\ hist.started < MaxCalls
       /\ \E t \in Workers, q \in AcctRequests : HandleMessage(t, q[1], q[2])
    \/ \E t \in Workers : Step(t)
    \/ Tick

SpecAcct == Init /\ [][NextAcct]_vars

\* The stores under overlapping requests: two senders who record, set a
\* budget and ask for it, MaxConcCalls requests.
NextConc ==
    \/ /\ hist.started < MaxConcCalls
       /\ \E t \in Workers, q \in ConcRequests : HandleMessage(t, q[1], q[2])
    \/ \E t \in Workers : Step(t)
    \/ Tick

SpecConc == Init /\ [][NextConc]_vars

\* ------------------------------------------- get_monthly_expenses_cop alone
\* Rows as add_transaction writes them, for any arguments: two phones, both
\* types, both currencies, two exchange rates, three categories (one of them
\* "null"), negative amounts, and dates in the month asked for, in another
\* month of the same year and in the same month of another year.
ExpRows ==
    {new_row(id, [year |-> d[1], month |-> d[2], day |-> 15], r[1], r[2], r[3], r[4],
             r[5], r[6], <<>>) :
        id \in {ID_1},
        d \in {<<2026, 1>>},
        r \in {<<571, "egreso", 1, W_COP, 3900, <<"a">>>>,
               <<571, "egreso", 2, W_USD, 3900, <<"a">>>>,
               <<571, "egreso", 3, W_USD, 4000, <<"b">>>>,
               <<571, "ingreso", 700, W_COP, 3900, <<"a">>>>,
               <<572, "egreso", 90, W_COP, 3900, <<"a">>>>,
               <<571, "egreso", -50, W_COP, 3900, <<"b">>>>,
               <<571, "egreso", 5, W_COP, 3900, <<"n", "u", "l", "l">>>>}}
    \cup
    {new_row(id, [year |-> d[1], month |-> d[2], day |-> 15], 571, "egreso", d[3],
             W_COP, 3900, <<"a">>, <<>>) :
        id \in {<<"z", "9", "y", "8", "x", "7", "w", "6">>}, d \in {<<2025, 1, 10000>>, <<2026, 2, 20000>>}}

\* The file after add_transaction has written the rows one after the
\* other, no call overlapping another.
RECURSIVE AddAll(_)
AddAll(rows) ==
    IF rows = <<>> THEN <<>>
    ELSE save_transactions(
            concat(read_transactions(AddAll(SubSeq(rows, 1, Len(rows) - 1))),
                   rows[Len(rows)]))

RECURSIVE SeqsUpTo(_, _)
SeqsUpTo(S, n) ==
    IF n = 0 THEN {<<>>}
    ELSE LET shorter == SeqsUpTo(S, n - 1) IN
         shorter \cup {Append(q, x) : q \in shorter, x \in S}

InitExp ==
    /\ ledger \in {AddAll(rows) : rows \in SeqsUpTo(ExpRows, MaxRows)}
    /\ budgets = EmptyDict
    /\ disk = [ledger |-> IF ledger = <<>> THEN "absent" ELSE "whole",
               budgets |-> "absent", bytes |-> 0]
    /\ clock \in 0..1
    /\ pc = [t \in Workers |-> "idle"]
    /\ loc = [t \in Workers |-> NoLocals]
    /\ hist = [added |-> <<>>, lastSet |-> EmptyDict, started |-> 0]
    /\ query = NoQuery

\* One call of get_monthly_expenses_cop(phone, year, month) on a ledger no
\* request is writing; 0 for an argument left out.
MonthlyExpenses(phone, year, month) ==
    \E res \in {get_monthly_expenses_cop(ledger, Now(clock), phone, year, month)} :
       /\ query' = [done |-> TRUE, phone |-> phone, year |-> year, month |-> month,
                       total |-> res.total, by_category |-> res.by_category]
       /\ UNCHANGED <<ledger, budgets, disk, clock, pc, loc, hist>>

NextExp ==
    \E phone \in {571, 572}, ym \in {<<2026, 1>>, <<2026, 2>>, <<2025, 1>>, <<0, 0>>} :
        MonthlyExpenses(phone, ym[1], ym[2])

SpecExp == InitExp /\ [][NextExp]_vars

\* ----------------------------------------------------------------- claims
Range(q) == {q[i] : i \in 1..Len(q)}

\* sub occurs in q as a run of consecutive elements.
Contains(q, sub) ==
    \E i \in 1..(Len(q) - Len(sub) + 1) : SubSeq(q, i, i + Len(sub) - 1) = sub

\* Thread t is in, or has ended, a call of handle_message: loc[t].phone and
\* loc[t].text are its arguments.
Called(t) == loc[t].calls = 1

PhoneOf(t) == IntVal(loc[t].phone)

\* The step is a step of thread t.
Moves(t) == pc'[t] # pc[t] \/ loc'[t] # loc[t]

AmountCommands == {W_gasto, W_egreso, W_ingreso, W_entrada}

BudgetCommands == {W_tope, W_presupuesto}

LedgerUnchanged == ledger' = ledger /\ disk'.ledger = disk.ledger

BudgetsUnchanged ==
    budgets' = budgets /\ disk'.budgets = disk.budgets /\ disk'.bytes = disk.bytes

W_detail == <<"d", "e", "t", "a", "i", "l">>

\* The rows of the file led that count for phone in a year and month: its
\* expenses dated in them.
CountedRows(led, phone, year, month) ==
    {i \in 1..Len(led) :
        /\ led[i].Telefono = phone
        /\ led[i].Tipo = "egreso"
        /\ to_datetime(led[i].Fecha).ts.year = year
        /\ to_datetime(led[i].Fecha).ts.month = month}

\* A row's amount in COP, at the rate stored on the row.
InCop(r) == IF r.Divisa = W_USD THEN r.Cantidad * r.TipoCambio ELSE r.Cantidad

RECURSIVE SumRows(_, _)
SumRows(led, I) ==
    IF I = {} THEN 0
    ELSE LET i == CHOOSE j \in I : TRUE IN InCop(led[i]) + SumRows(led, I \ {i})

\* What phone has spent in the month of the clock reading t.
Spent(led, phone, t) == SumRows(led, CountedRows(led, phone, Now(t).year, Now(t).month))

\* A record command whose first argument is not an integer.
C1_Case(p) == Len(p) >= 2 /\ p[1] \in AmountCommands /\ ~IsInt(p[2])

\* C1 as stated: a record command whose first argument is not an integer
\* records nothing, leaves the budgets alone and answers that the amount must
\* be a number, however many tokens follow (none included).
C1_Original ==
    [][\A t \in Workers :
          (Moves(t) /\ loc'[t].calls = 1 /\ C1_Case(loc'[t].parts))
          => /\ LedgerUnchanged /\ BudgetsUnchanged
             /\ loc'[t].replied
             /\ msg_monto \in Range(loc'[t].reply)]_vars

\* C1 amended: no step of such a call writes either file and the call
\* returns its reply without a store call; with at least two tokens after
\* the command word the reply says that the amount must be a number, with a
\* single token after it the reply is the usage message of the command.
C1_NonNumericAmountRejected ==
    [][\A t \in Workers :
          (Moves(t) /\ loc'[t].calls = 1 /\ C1_Case(loc'[t].parts))
          => /\ LedgerUnchanged /\ BudgetsUnchanged
             /\ loc'[t].replied
             /\ Len(loc'[t].parts) >= 3 => msg_monto \in Range(loc'[t].reply)
             /\ Len(loc'[t].parts) = 2 =>
                   loc'[t].reply = (IF loc'[t].parts[1] \in {W_gasto, W_egreso}
                                    THEN msg_formato_gasto
                                    ELSE msg_formato_ingreso)]_vars

C1_Witness ==
    \E t \in Workers :
       /\ Called(t) /\ C1_Case(loc[t].parts) /\ Len(loc[t].parts) >= 3
       /\ loc[t].parts[1] \in {W_gasto, W_egreso}
       /\ pc[t] = "returned"
       /\ msg_monto \in Range(loc[t].reply)
       /\ disk.ledger = "whole" /\ ledger # <<>>

\* The message "gasto a c detail": four tokens, a an integer.
C2_Case(text) ==
    LET w == Split(text) IN
    Len(w) = 4 /\ w[1] = W_gasto /\ IsInt(w[2]) /\ w[4] = W_detail

\* The ledger file is whole and holds the rows led, reading as they did,
\* and one more row: the expense of amount a in COP of the sender, with the
\* category c and the detail "detail".
C2_Recorded(led, phone, text) ==
    /\ disk'.ledger = "whole"
    /\ Len(ledger') = Len(led) + 1
    /\ read_transactions(SubSeq(ledger', 1, Len(ledger') - 1)) = read_transactions(led)
    /\ LET r == ledger'[Len(ledger')] IN
       /\ r.Tipo = "egreso"
       /\ r.Cantidad = IntVal(Split(text)[2])
       /\ r.Categoria = Some(Split(text)[3])
       /\ r.Divisa = W_COP
       /\ r.Detalle = Some(W_detail)
       /\ r.Telefono = IntVal(phone)
       /\ r.TipoCambio = DEFAULT_TIPO_CAMBIO

\* C2: for every integer a and every one-token category c, a call of
\* handle_message with "gasto a c detail" appends exactly one expense of
\* amount a, category c, currency COP and detail "detail" to the ledger
\* and leaves the budgets alone: no step of the call writes the budgets,
\* its add_transaction does not fail, and the save leaves the ledger as it
\* was when the save began, with that row appended.
C2_GastoRecordsOneExpense ==
    [][\A t \in Workers :
          (Moves(t) /\ loc'[t].calls = 1 /\ C2_Case(loc'[t].text))
          => /\ BudgetsUnchanged
             /\ pc[t] = "add_read" => pc'[t] # "raised"
             /\ pc[t] = "add_save" =>
                   C2_Recorded(loc[t].was, loc[t].phone, loc[t].text)]_vars

\* A record command with an integer amount, and a budget-set with an
\* integer argument.
IsRecord(p) == Len(p) >= 3 /\ p[1] \in AmountCommands /\ IsInt(p[2])

IsBudgetSet(p) == Len(p) >= 2 /\ p[1] \in BudgetCommands /\ IsInt(p[2])

\* C3: no step of a handle_message call other than a record with an
\* integer amount or a budget-set with an integer argument writes either
\* file; no step of a record writes the budgets and no step of a
\* budget-set writes the ledger.
C3_OnlyThreeCommandsMutate ==
    [][\A t \in Workers :
          (Moves(t) /\ loc'[t].calls = 1)
          => /\ (~IsRecord(loc'[t].parts) /\ ~IsBudgetSet(loc'[t].parts))
                   => (LedgerUnchanged /\ BudgetsUnchanged)
             /\ IsRecord(loc'[t].parts) => BudgetsUnchanged
             /\ IsBudgetSet(loc'[t].parts) => LedgerUnchanged]_vars

C3_Witness ==
    \E t \in Workers :
       /\ Called(t) /\ pc[t] = "returned"
       /\ loc[t].parts # <<>> /\ loc[t].parts[1] \in {W_estado, W_resumen}
       /\ loc[t].status.spent_cop > 0
       /\ disk.ledger = "whole" /\ ledger # <<>>

\* C4: "tope" alone reports the budget stored for the sender whenever
\* get_budget finds one, 0 included, and answers "no budget" only when it
\* finds none: it agrees with has_budget of the budget status computed from
\* the same stored value.
C4_TopeQueryAgreesWithHasBudget ==
    \A t \in Workers :
       (Called(t) /\ loc[t].replied
           /\ loc[t].parts \in {<<W_tope>>, <<W_presupuesto>>})
       => /\ ~loc[t].budget.isNone =>
                loc[t].reply = <<"Tu tope mensual actual es: $">>
                                  \o FmtComma(loc[t].budget.v)
                                  \o <<" COP\nPara cambiarlo: *tope <monto>*">>
          /\ loc[t].budget.isNone => loc[t].reply = msg_no_tope
          /\ (loc[t].reply # msg_no_tope)
                <=> get_budget_status(loc[t].budget,
                                      [total |-> 0, by_category |-> EmptyDict]).has_budget

\* The year and month a query asks for.
QueryYear == IF query.year = 0 THEN Now(clock).year ELSE query.year

QueryMonth == IF query.month = 0 THEN Now(clock).month ELSE query.month

QueryRows == CountedRows(ledger, query.phone, QueryYear, QueryMonth)

\* C5: the total is the sum, over exactly the expenses of the phone dated in
\* the year and month, of each amount converted at the rate stored on its
\* row; by_category holds each category written on such a row (a row whose
\* cell is empty has none) with the sum of its rows; and the result is
\* (0, {}) when no row matches.
C5_MonthlyExpenses ==
    query.done =>
       LET labelled == {i \in QueryRows : ~ledger[i].Categoria.isNone} IN
       /\ query.total = SumRows(ledger, QueryRows)
       /\ DOMAIN query.by_category = {ledger[i].Categoria.v : i \in labelled}
       /\ \A c \in DOMAIN query.by_category :
             query.by_category[c] =
                SumRows(ledger, {i \in labelled : ledger[i].Categoria.v = c})
       /\ QueryRows = {} =>
             (query.total = 0 /\ DOMAIN query.by_category = {})

\* The thread was asked for the status and get_budget has found a budget
\* stored for the sender.
C6_Case(t) ==
    /\ Called(t)
    /\ loc[t].parts # <<>> /\ loc[t].parts[1] \in {W_estado, W_resumen}
    /\ ~loc[t].budget.isNone

\* C6: with a budget b stored (0 included) and s spent in the current
\* month, get_budget_status does not fail and returns has_budget,
\* remaining = b - s and percentage 0 when b = 0, and the report has an
\* "EXCEDIDO por" line with |remaining| exactly when remaining < 0 and a
\* "Disponible" line with remaining exactly when remaining >= 0.
C6_BudgetStatus ==
    \A t \in Workers :
       C6_Case(t) =>
          LET b   == loc[t].budget.v
              s   == Spent(loc[t].df, PhoneOf(t), loc[t].reads.expenses)
              st  == loc[t].status
              rem == b - s
          IN  /\ pc[t] # "raised" \/ loc[t].replied
              /\ loc[t].replied =>
                    /\ st.has_budget
                    /\ st.budget = b /\ st.spent_cop = s /\ st.remaining = rem
                    /\ b = 0 => /\ ~st.percentage.isFloat /\ st.percentage.tenths = 0
                                /\ Contains(loc[t].reply, <<" COP (", "0", "%)">>)
                    /\ (rem < 0) <=>
                          Contains(loc[t].reply, <<"\n", "EXCEDIDO por: $">>
                                                  \o FmtComma(Abs(rem)) \o <<" COP">>)
                    /\ (rem >= 0) <=>
                          Contains(loc[t].reply, <<"\n", "Disponible: $">>
                                                  \o FmtComma(rem) \o <<" COP">>)
                    /\ ("EXCEDIDO por: $" \in Range(loc[t].reply)) <=> (rem < 0)
                    /\ ("Disponible: $" \in Range(loc[t].reply)) <=> (rem >= 0)

\* The thread has recorded an expense and built its reply.
C7_Case(t) ==
    /\ Called(t) /\ loc[t].replied
    /\ IsRecord(loc[t].parts) /\ loc[t].parts[1] \in {W_gasto, W_egreso}

\* What the expense adds to the month's spending: a times the default rate
\* when the currency token is USD, a otherwise.
C7_Added(t) ==
    IF UpperStr(loc[t].parts[3]) = W_USD
    THEN IntVal(loc[t].parts[2]) * DEFAULT_TIPO_CAMBIO
    ELSE IntVal(loc[t].parts[2])

\* C7: the report appended to the reply of a recorded expense shows what the
\* sender had spent in the month of the command before it, plus what the
\* expense adds, and recording it leaves the spending of every other phone
\* what it was.
C7_ReportIncludesNewExpense ==
    \A t \in Workers :
       C7_Case(t) =>
          LET after == Spent(loc[t].was, PhoneOf(t), loc[t].reads.add) + C7_Added(t) IN
          /\ \/ Contains(loc[t].reply, <<"\n", "Gastado: $">> \o FmtComma(after)
                                          \o <<" COP (">>)
             \/ Contains(loc[t].reply, <<"\n", "Gastado este mes: $">>
                                          \o FmtComma(after) \o <<" COP", "\n">>)
          /\ \A q \in {IntVal(ph) : ph \in {P_571, P_572}} \ {PhoneOf(t)} :
                Spent(loc[t].left, q, loc[t].reads.add)
                   = Spent(loc[t].was, q, loc[t].reads.add)

\* C8: every webhook message from which a sender and a text are extracted,
\* the empty text included, makes exactly one handle_message call and sends
\* exactly one reply to the sender; for an empty text the reply is the help.
C8_OneReplyPerMessage ==
    \A t \in Workers :
       (loc[t].kind = "receive_message" /\ loc[t].extracted
           /\ pc[t] \in {"returned", "raised"})
       => /\ loc[t].calls = 1
          /\ Len(loc[t].sent) = 1
          /\ loc[t].sent[1].to = loc[t].phone
          /\ loc[t].text = <<>> => loc[t].sent[1].body = msg_ayuda

\* C9: under any interleaving the ledger holds one row per completed
\* add_transaction call, and every row a completed call wrote is read back
\* from it.
C9_LedgerKeepsEveryCompletedAdd ==
    /\ Len(ledger) = Len(hist.added)
    /\ \A i \in 1..Len(hist.added) :
          read_row(hist.added[i]) \in Range(read_transactions(ledger))

\* C10: the budget stored for each phone is the amount of its most recent
\* completed set_budget, absent if it never set one, whatever other phones'
\* calls overlap.
C10_BudgetIsLastCompletedSet ==
    /\ DOMAIN budgets = DOMAIN hist.lastSet
    /\ \A k \in DOMAIN hist.lastSet : budgets[k] = hist.lastSet[k]

====
